---- MODULE Spec2Model ----
(***************************************************************************)
(* Container items of the ORA2 studio editor (oa_container_item.js):       *)
(* rubric criteria and their options, AI examples and the menu items       *)
(* paired with them.  The DOM is modelled by the attributes, classes and   *)
(* field values the item code reads and writes.                            *)
(***************************************************************************)
EXTENDS Integers, Sequences, FiniteSets

(***************************************************************************)
(* JavaScript values.  Attribute values are strings; jQuery's data()       *)
(* converts a decimal string to a number; a missing attribute reads as     *)
(* undefined.                                                              *)
(***************************************************************************)
Str(n) == [t |-> "string", v |-> n]
Num(n) == [t |-> "number", v |-> n]
Undefined == [t |-> "undefined", v |-> 0]
\* The empty string, which is no decimal.
EmptyString == [t |-> "string", v |-> -1]
\* What parseInt gives for a field that holds no number.
NaN == [t |-> "NaN", v |-> 0]

\* index.toString()
IndexToString(n) == Str(n)

\* $(el).attr(name, value): a value is stored as its string; attr(name,
\* undefined) sets nothing and leaves the old attribute.
SetAttr(old, value) ==
    IF value.t = "undefined" THEN old ELSE Str(value.v)

\* $(el).data(key): the data-* attribute, a decimal string converted to a number.
Data(attr) ==
    IF attr.t = "string" THEN Num(attr.v) ELSE Undefined

\* "*[attr='" + x + "']" matches an element: the attribute is present and
\* equals the string built from x ("undefined" for an undefined x, which no
\* decimal attribute equals).
AttrMatches(attr, x) ==
    /\ attr.t = "string"
    /\ x.t \in {"string", "number"}
    /\ attr.v = x.v

\* a == b in JavaScript for identifiers: a number equals its decimal string.
LooseEq(a, b) ==
    \/ a = b
    \/ /\ a.t \in {"string", "number"}
       /\ b.t \in {"string", "number"}
       /\ a.v = b.v

RemoveAt(s, i) == SubSeq(s, 1, i - 1) \o SubSeq(s, i + 1, Len(s))

RECURSIVE SelectSeqBy(_, _)
\* The elements of s whose index is in keep, in order.
SelectSeqBy(s, keep) ==
    IF s = <<>> THEN <<>>
    ELSE LET n == Len(s)
             front == SelectSeqBy(SubSeq(s, 1, n - 1), keep)
         IN IF n \in keep THEN Append(front, s[n]) ELSE front

(***************************************************************************)
(* Bounds                                                                  *)
(***************************************************************************)
MaxExamples == 4
MaxCriteria == 2
MaxOptions == 2
\* How far beyond [min, max] the points tried in a points field reach.
PointsMargin == 2
\* The items on one page (criteria, options, examples, menu items) while
\* every kind of operation is run on them.
MaxItems == 4
\* The largest selector.length and the largest identifier in use when
\* createUniqueName is called on its own.
MaxSelector == 3
MaxUsedName == 4
\* The largest data-points value of a dropdown option that is rendered.
MaxShownPoints == 30

(***************************************************************************)
(* ItemUtilities.createUniqueName(selector, nameAttribute)                 *)
(*   selectorLength : selector.length                                      *)
(*   used           : the nameAttribute values carried by the elements     *)
(*                    under selector.parent()                              *)
(***************************************************************************)
RECURSIVE createUniqueNameFrom(_, _, _)
createUniqueNameFrom(index, selectorLength, used) ==
    IF index <= selectorLength
    THEN IF \A a \in used : ~AttrMatches(a, Num(index))
         THEN IndexToString(index)
         ELSE createUniqueNameFrom(index + 1, selectorLength, used)
    ELSE IndexToString(index)

\* A generator that numbers by position instead of scanning for a free value.
createUniqueNameByCount(selectorLength, used) ==
    IndexToString(Cardinality({a \in used : a.t = "string"}))

\* A generator whose scan starts at 1.
createUniqueNameFromOne(selectorLength, used) ==
    createUniqueNameFrom(1, selectorLength, used)

createUniqueName(selectorLength, used) ==
    createUniqueNameFrom(0, selectorLength, used)

RECURSIVE createUniqueNameScan(_, _, _)
\* A loop that scans until a free index is found, with no bound on index.
createUniqueNameScan(index, selectorLength, used) ==
    IF \A a \in used : ~AttrMatches(a, Num(index))
    THEN [name |-> IndexToString(index), probes |-> index + 1]
    ELSE createUniqueNameScan(index + 1, selectorLength, used)

RECURSIVE createUniqueNameRun(_, _, _)
\* The loop of createUniqueName from index on, with the number of times
\* selector.parent().find(...) was evaluated up to the return.
createUniqueNameRun(index, selectorLength, used) ==
    IF index <= selectorLength
    THEN IF \A a \in used : ~AttrMatches(a, Num(index))
         THEN [name |-> IndexToString(index), probes |-> index + 1]
         ELSE createUniqueNameRun(index + 1, selectorLength, used)
    ELSE [name |-> IndexToString(index), probes |-> index]

\* The smallest non-negative integer no element carries.
RECURSIVE SmallestFreeFrom(_, _)
SmallestFreeFrom(n, used) ==
    IF \E a \in used : a.t = "string" /\ a.v = n
    THEN SmallestFreeFrom(n + 1, used)
    ELSE n

SmallestFree(used) == SmallestFreeFrom(0, used)

VARIABLES
    examples,   \* the .openassessment_ai_example elements, in DOM order
    menu,       \* the .openassessment_ai_example_menu_item elements, in DOM order
    bgHidden,   \* #openassessment_ai_example_editor_background has is--hidden
    criteria,   \* the .openassessment_criterion elements, with their options
    training,   \* the training example elements, with their dropdowns
    fired,      \* notifier.notificationFired calls made by the last operation
    last        \* the last operation and what it observed

vars == <<examples, menu, bgHidden, criteria, training, fired, last>>

\* Field contents of an item freshly cloned from its template.
EmptyText == ""
TemplateLabel == EmptyText
TemplatePrompt == EmptyText
TemplateFeedback == "disabled"
TemplateMenuText == "template"
LabelInputs == {"Foo"}

(***************************************************************************)
(* ItemUtilities.refreshOptionString(element)                              *)
(*   element: an <option> of an example's dropdown, with its data-points   *)
(*   and data-label attributes, its value and its text.                    *)
(***************************************************************************)
\* The string "NaN", as attr('data-points') gives it for invalid points.
NaNAttr == [t |-> "NaN-string", v |-> 0]

\* isNaN(points) for an attribute value: Number("") is 0.
IsNaN(points) == points.t \in {"undefined", "NaN-string", "NaN"}

\* ngettext(singular, plural, count) without a catalogue: count == 1.
ngettext(singular, plural, count) ==
    IF LooseEq(count, Num(1)) THEN singular ELSE plural

\* A rendered string: label, or label + " - " + points + " " + unit.
Text(label, points, unit) == [label |-> label, points |-> points, unit |-> unit]
PlainText(label) == Text(label, Undefined, "")

\* A refreshOptionString that tests the points before the value.
refreshOptionStringPointsFirst(element) ==
    LET points == element.points
        label == IF element.label = EmptyText THEN "Unnamed Option" ELSE element.label
        finalLabel == IF IsNaN(points) THEN PlainText(label)
                      ELSE IF element.value = EmptyString THEN PlainText("Not Selected")
                      ELSE ngettext(Text(label, points, "point"),
                                    Text(label, points, "points"), points)
    IN [element EXCEPT !.text = finalLabel]

refreshOptionString(element) ==
    LET points == element.points
        label == IF element.label = EmptyText THEN "Unnamed Option" ELSE element.label
        singularString == Text(label, points, "point")
        multipleString == Text(label, points, "points")
        finalLabel == IF element.value = EmptyString THEN PlainText("Not Selected")
                      ELSE IF IsNaN(points) THEN PlainText(label)
                      ELSE ngettext(singularString, multipleString, points)
    IN [element EXCEPT !.text = finalLabel]

(***************************************************************************)
(* The dropdowns of an example (.openassessment_*_example_criterion_option)*)
(***************************************************************************)
\* An <option> as the template holds it, its text not yet rendered.
OptionElement(points, label, value) ==
    [points |-> points, label |-> label, value |-> value, text |-> PlainText(EmptyText)]

\* A dropdown for one criterion: the "Not Selected" option and one option
\* of the criterion; nothing is selected.
TemplateDropdown(criterion) ==
    [criterion |-> criterion, value |-> EmptyString, marked |-> FALSE,
     options |-> << OptionElement(Undefined, EmptyText, EmptyString),
                    OptionElement(Str(1), EmptyText, Str(0)) >>]

TemplateDropdowns == << TemplateDropdown(Str(0)), TemplateDropdown(Str(1)) >>

\* The values a user can select in a dropdown.
SelectInputs == {EmptyString, Str(0)}

\* $('option', dropdown).each(refreshOptionString) over every dropdown.
RefreshDropdowns(dropdowns) ==
    [d \in DOMAIN dropdowns |->
        [dropdowns[d] EXCEPT !.options =
            [k \in DOMAIN dropdowns[d].options |-> refreshOptionString(dropdowns[d].options[k])]]]

RECURSIVE MarkedMessages(_, _, _)
\* One message for every dropdown up to n that carries the mark.
MarkedMessages(dropdowns, n, message) ==
    IF n = 0 THEN <<>>
    ELSE MarkedMessages(dropdowns, n - 1, message)
            \o (IF dropdowns[n].marked THEN << message >> ELSE <<>>)

(***************************************************************************)
(* TrainingExample                                                         *)
(***************************************************************************)
TrainingExample_new == [answer |-> EmptyText, criteria |-> TemplateDropdowns]

TrainingExample_getFieldValues(e) ==
    [answer |-> e.answer,
     options_selected |-> [d \in DOMAIN e.criteria |->
                              [criterion |-> Data(e.criteria[d].criterion),
                               option |-> e.criteria[d].value]]]

TrainingExample_addHandler(e) == [e EXCEPT !.criteria = RefreshDropdowns(@)]

\* A validate that marks the first empty dropdown only.
TrainingExample_validateFirst(e) ==
    LET empty == {d \in DOMAIN e.criteria : e.criteria[d].value = EmptyString}
    IN [valid |-> empty = {},
        item |-> [e EXCEPT !.criteria =
                    [d \in DOMAIN e.criteria |->
                        [e.criteria[d] EXCEPT !.marked =
                            @ \/ (d \in empty /\ \A k \in empty : d <= k)]]]]

\* A validate that takes the mark off a dropdown with a selection.
TrainingExample_validateUnmarking(e) ==
    [valid |-> \A d \in DOMAIN e.criteria : e.criteria[d].value # EmptyString,
     item |-> [e EXCEPT !.criteria =
                 [d \in DOMAIN e.criteria |->
                     [e.criteria[d] EXCEPT !.marked = (e.criteria[d].value = EmptyString)]]]]

TrainingExample_validate(e) ==
    [valid |-> \A d \in DOMAIN e.criteria : e.criteria[d].value # EmptyString,
     item |-> [e EXCEPT !.criteria =
                 [d \in DOMAIN e.criteria |->
                     [e.criteria[d] EXCEPT !.marked = @ \/ e.criteria[d].value = EmptyString]]]]

TrainingExample_validationErrors(e) ==
    MarkedMessages(e.criteria, Len(e.criteria), "Student training example is invalid.")

TrainingExample_clearValidationErrors(e) ==
    [e EXCEPT !.criteria =
        [d \in DOMAIN e.criteria |-> [e.criteria[d] EXCEPT !.marked = FALSE]]]

(***************************************************************************)
(* AIExample                                                               *)
(***************************************************************************)
\* The data-example values under the examples' parent element.
ExampleNames(exs) == {exs[j].name : j \in DOMAIN exs}

\* OpenAssessment.AIExample(element): the element is hidden on construction.
\* assigned: the identifier addHandler generated for this example.
AIExample_new ==
    [name |-> Undefined, hidden |-> TRUE, label |-> TemplateLabel, listeners |-> 0,
     answer |-> EmptyText, criteria |-> TemplateDropdowns, assigned |-> Undefined]

AIExample_addEventListeners(e) ==
    [e EXCEPT !.listeners = @ + 1]

\* The option strings are refreshed; this.element is the selector handed
\* to createUniqueName: length 1.
AIExample_addHandler(e, siblings) ==
    AIExample_addEventListeners(
        [e EXCEPT !.criteria = RefreshDropdowns(@),
                  !.name = SetAttr(@, createUniqueName(1, ExampleNames(siblings) \cup {e.name}))])

AIExample_getFieldValues(e) ==
    [answer |-> e.answer, label |-> e.label,
     options_selected |-> [d \in DOMAIN e.criteria |->
                              [criterion |-> Data(e.criteria[d].criterion),
                               option |-> e.criteria[d].value]]]

AIExample_validate(e) ==
    [valid |-> \A d \in DOMAIN e.criteria : e.criteria[d].value # EmptyString,
     item |-> [e EXCEPT !.criteria =
                 [d \in DOMAIN e.criteria |->
                     [e.criteria[d] EXCEPT !.marked = @ \/ e.criteria[d].value = EmptyString]]]]

AIExample_validationErrors(e) ==
    MarkedMessages(e.criteria, Len(e.criteria),
                   "An Example Based Assessment Example is invalid.")

AIExample_clearValidationErrors(e) ==
    [e EXCEPT !.criteria =
        [d \in DOMAIN e.criteria |-> [e.criteria[d] EXCEPT !.marked = FALSE]]]

\* The menu items the selector of updateHandler matches, in DOM order.
MatchingMenuItems(mnu, x) == {j \in DOMAIN mnu : AttrMatches(mnu[j].name, x)}

\* An updateHandler that writes the label into the menu item's
\* data-example-name too, losing the identifier.
AIExample_updateHandlerRenaming(e, mnu) ==
    LET hits == MatchingMenuItems(mnu, e.name)
    IN IF hits = {} THEN mnu
       ELSE LET first == CHOOSE j \in hits : \A k \in hits : j <= k
            IN [mnu EXCEPT ![first].text = e.label, ![first].name = EmptyString]

\* find('h2').first().text(label): the first matching menu item shows the label.
AIExample_updateHandler(e, mnu) ==
    LET hits == MatchingMenuItems(mnu, e.name)
    IN IF hits = {} THEN mnu
       ELSE LET first == CHOOSE j \in hits : \A k \in hits : j <= k
            IN [mnu EXCEPT ![first].text = e.label]

(***************************************************************************)
(* AIExampleMenuItem                                                       *)
(***************************************************************************)
MenuNames(mnu) == {mnu[j].name : j \in DOMAIN mnu}

AIExampleMenuItem_new ==
    [name |-> Undefined, faded |-> FALSE, text |-> TemplateMenuText, clicks |-> <<>>,
     assigned |-> Undefined]

\* Each call installs one more click listener; the listener keeps the
\* data-example value read at installation.
AIExampleMenuItem_addEventListeners(m) ==
    [m EXCEPT !.clicks = Append(@, m.name)]

AIExampleMenuItem_addHandler(m, siblings) ==
    AIExampleMenuItem_addEventListeners(
        [m EXCEPT !.name = SetAttr(@, createUniqueName(1, MenuNames(siblings) \cup {m.name}))])

\* ItemUtilities.addClassToAllButOne over the editor panels (is--hidden)
\* and over the menu items (is--faded), for one click listener.
ClickListener(st, exampleName) ==
    [exs |-> [j \in DOMAIN st.exs |->
                [st.exs[j] EXCEPT !.hidden = ~AttrMatches(st.exs[j].name, exampleName)]],
     mnu |-> [j \in DOMAIN st.mnu |->
                [st.mnu[j] EXCEPT !.faded = ~AttrMatches(st.mnu[j].name, exampleName)]],
     bg  |-> TRUE]

RECURSIVE RunClickListeners(_, _)
\* A click runs the listeners in the order they were installed.
RunClickListeners(st, listeners) ==
    IF listeners = <<>> THEN st
    ELSE RunClickListeners(ClickListener(st, Head(listeners)), Tail(listeners))

\* The examples the pairedExample selector of removeHandler matches.
PairedExamples(exs, m) == {j \in DOMAIN exs : AttrMatches(exs[j].name, m.name)}

\* A removeHandler that leaves the paired example in place.
AIExampleMenuItem_removeHandlerKeep(exs, bg, m) ==
    [exs |-> exs, bg |-> bg, lastExample |-> FALSE,
     currentlySelected |-> FALSE, revealed |-> FALSE]

AIExampleMenuItem_removeHandler(exs, bg, m) ==
    LET paired == PairedExamples(exs, m)
        lastExample == paired # {} /\ Len(exs) = 1
        currentlySelected == ~(\E j \in paired : exs[j].hidden)
        \* the placeholder is looked up under the paired example's parent
        reveal == (lastExample \/ currentlySelected) /\ paired # {}
    IN [exs |-> SelectSeqBy(exs, DOMAIN exs \ paired),
        bg  |-> IF reveal THEN FALSE ELSE bg,
        lastExample |-> lastExample,
        currentlySelected |-> currentlySelected,
        revealed |-> reveal]


AIExampleMenuItem_validate(m) == [valid |-> TRUE, item |-> m]

AIExampleMenuItem_validationErrors(m) == <<>>

AIExampleMenuItem_clearValidationErrors(m) == m

(***************************************************************************)
(* RubricOption                                                            *)
(***************************************************************************)
\* Field contents of an option cloned from #openassessment_option_template.
TemplatePoints == Num(1)

\* marked: the points field has openassessment_highlighted_field.
\* added: the identifiers the optionAdd notification of this option carried.
RubricOption_new ==
    [criterion |-> Undefined, option |-> Undefined, nameField |-> EmptyString,
     label |-> TemplateLabel, points |-> TemplatePoints, marked |-> FALSE,
     listeners |-> 0,
     added |-> [criterionName |-> Undefined, name |-> Undefined]]

\* An addEventListeners that installs no focusout listener.
RubricOption_addEventListenersNone(o) == o

RubricOption_addEventListeners(o) ==
    [o EXCEPT !.listeners = @ + 1]

\* The name key is left out while the name field is the empty string.
RubricOption_getFieldValues(o) ==
    [label |-> o.label, points |-> o.points,
     name |-> IF o.nameField # EmptyString THEN o.nameField ELSE Undefined]

\* The data-option values under the option list of one criterion.
OptionNames(opts) == {opts[j].option : j \in DOMAIN opts}

\* An addHandler that notifies before it stamps the element.
RubricOption_addHandlerNotifyFirst(o, crit, siblings) ==
    LET criterionName == Data(crit.name)
        name == createUniqueName(Len(siblings) + 1, OptionNames(siblings) \cup {o.option})
        fields == RubricOption_getFieldValues(o)
        stamped == [o EXCEPT !.criterion = SetAttr(@, criterionName),
                             !.option = SetAttr(@, name),
                             !.nameField = name]
    IN [item |-> stamped,
        fired |-> << [event |-> "optionAdd", criterionName |-> criterionName,
                      criterionLabel |-> crit.label, name |-> name,
                      label |-> fields.label, points |-> fields.points,
                      dom |-> o] >>]

\* o is the new option, already appended to the option list of crit;
\* siblings are the options that were there before it.  dom is the firing
\* element as a subscriber reads it when the notification is dispatched.
RubricOption_addHandler(o, crit, siblings) ==
    LET criterionName == Data(crit.name)
        name == createUniqueName(Len(siblings) + 1, OptionNames(siblings) \cup {o.option})
        stamped == [o EXCEPT !.criterion = SetAttr(@, criterionName),
                             !.option = SetAttr(@, name),
                             !.nameField = name]
        fields == RubricOption_getFieldValues(stamped)
    IN [item |-> stamped,
        fired |-> << [event |-> "optionAdd", criterionName |-> criterionName,
                      criterionLabel |-> crit.label, name |-> name,
                      label |-> fields.label, points |-> fields.points,
                      dom |-> stamped] >>]

\* A removeHandler that reads the two data attributes the wrong way round.
RubricOption_removeHandlerSwapped(o) ==
    << [event |-> "optionRemove", criterionName |-> Data(o.option),
        name |-> Data(o.criterion), dom |-> o] >>

RubricOption_removeHandler(o) ==
    << [event |-> "optionRemove", criterionName |-> Data(o.criterion),
        name |-> Data(o.option), dom |-> o] >>

RubricOption_updateHandler(o) ==
    LET fields == RubricOption_getFieldValues(o)
    IN << [event |-> "optionUpdated", criterionName |-> Data(o.criterion),
           name |-> Data(o.option), label |-> fields.label,
           points |-> fields.points, dom |-> o] >>

(***************************************************************************)
(* The points field of an option: IntField with { min: 0, max: 999 }.      *)
(***************************************************************************)
MinPoints == 0
MaxPoints == 999

\* IntField.validate(): the parsed value lies in [min, max].
IntField_isValid(value) ==
    /\ value.t = "number"
    /\ MinPoints <= value.v
    /\ value.v <= MaxPoints

\* option.points(points): pointsField.set(points).
RubricOption_points(o, points) == [o EXCEPT !.points = points]

\* A validate whose upper bound is exclusive.
RubricOption_validateExclusive(o) ==
    LET ok == IntField_isValid(o.points) /\ o.points.v < MaxPoints
    IN [valid |-> ok, item |-> [o EXCEPT !.marked = @ \/ ~ok]]

\* pointsField.validate(): a failing field is marked.
RubricOption_validate(o) ==
    [valid |-> IntField_isValid(o.points),
     item |-> [o EXCEPT !.marked = @ \/ ~IntField_isValid(o.points)]]

RubricOption_validationErrors(o) ==
    IF o.marked THEN << "Option points are invalid" >> ELSE <<>>

RubricOption_clearValidationErrors(o) == [o EXCEPT !.marked = FALSE]

(***************************************************************************)
(* RubricCriterion                                                         *)
(***************************************************************************)
\* marked: the prompt field has openassessment_highlighted_field.
\* assigned: the identifier addHandler generated for this criterion.
RubricCriterion_new ==
    [name |-> Undefined, nameField |-> EmptyString, label |-> TemplateLabel,
     prompt |-> TemplatePrompt, feedback |-> TemplateFeedback, marked |-> FALSE,
     options |-> <<>>, listeners |-> 0, assigned |-> Undefined]

RubricCriterion_addEventListeners(c) ==
    [c EXCEPT !.listeners = @ + 1]

\* The data-criterion values under the criteria's parent: the criteria
\* themselves and the options stamped with their criterion's name.
CriterionNames(crits) ==
    {crits[j].name : j \in DOMAIN crits}
        \cup UNION {{crits[j].options[k].criterion : k \in DOMAIN crits[j].options} :
                    j \in DOMAIN crits}

RubricCriterion_addHandler(c, siblings) ==
    LET name == createUniqueName(Len(siblings) + 1, CriterionNames(siblings) \cup {c.name})
    IN [c EXCEPT !.name = SetAttr(@, name), !.nameField = name]

\* A removeHandler that also announces the removal of every option.
RubricCriterion_removeHandlerCascade(c) ==
    << [event |-> "criterionRemove", criterionName |-> Data(c.name), dom |-> c] >>
        \o [j \in DOMAIN c.options |->
               [event |-> "optionRemove", criterionName |-> Data(c.options[j].criterion),
                name |-> Data(c.options[j].option), dom |-> c.options[j]]]

RubricCriterion_removeHandler(c) ==
    << [event |-> "criterionRemove", criterionName |-> Data(c.name), dom |-> c] >>

\* optionContainer.getItemValues() and the criterion's own fields; the name
\* key is left out while the name field is the empty string.
RubricCriterion_getFieldValues(c) ==
    [label |-> c.label, prompt |-> c.prompt, feedback |-> c.feedback,
     options |-> [j \in DOMAIN c.options |-> RubricOption_getFieldValues(c.options[j])],
     name |-> IF c.nameField # EmptyString THEN c.nameField ELSE Undefined]

\* An updateHandler that stays silent while the criterion has no name.
RubricCriterion_updateHandlerGuarded(c) ==
    LET fields == RubricCriterion_getFieldValues(c)
    IN IF fields.name = Undefined THEN <<>>
       ELSE << [event |-> "criterionUpdated", criterionName |-> fields.name,
                criterionLabel |-> fields.label, dom |-> c] >>

RubricCriterion_updateHandler(c) ==
    LET fields == RubricCriterion_getFieldValues(c)
    IN << [event |-> "criterionUpdated", criterionName |-> fields.name,
           criterionLabel |-> fields.label, dom |-> c] >>

\* criterion.prompt(prompt)
RubricCriterion_prompt(c, prompt) == [c EXCEPT !.prompt = prompt]

\* A validate that stops at the first failure.
RubricCriterion_validateShortCircuit(c) ==
    LET promptValid == c.prompt # EmptyText
        reached(j) == promptValid /\ \A k \in 1..(j - 1) : IntField_isValid(c.options[k].points)
        checked == [j \in DOMAIN c.options |->
                       IF reached(j) THEN RubricOption_validate(c.options[j])
                       ELSE [valid |-> FALSE, item |-> c.options[j]]]
    IN [valid |-> promptValid /\ \A j \in DOMAIN checked : checked[j].valid,
        item |-> [c EXCEPT !.marked = @ \/ ~promptValid,
                           !.options = [j \in DOMAIN checked |-> checked[j].item]]]

\* The prompt is checked and marked, then validate() runs on every option.
RubricCriterion_validate(c) ==
    LET promptValid == c.prompt # EmptyText
        checked == [j \in DOMAIN c.options |-> RubricOption_validate(c.options[j])]
    IN [valid |-> promptValid /\ \A j \in DOMAIN checked : checked[j].valid,
        item |-> [c EXCEPT !.marked = @ \/ ~promptValid,
                           !.options = [j \in DOMAIN checked |-> checked[j].item]]]

RECURSIVE ConcatErrors(_, _)
\* errors.concat(item.validationErrors()) over the options up to n.
ConcatErrors(opts, n) ==
    IF n = 0 THEN <<>>
    ELSE ConcatErrors(opts, n - 1) \o RubricOption_validationErrors(opts[n])

RubricCriterion_validationErrors(c) ==
    (IF c.marked THEN << "Criterion prompt is invalid." >> ELSE <<>>)
        \o ConcatErrors(c.options, Len(c.options))

\* A clearValidationErrors that forgets the options.
RubricCriterion_clearValidationErrorsOwn(c) == [c EXCEPT !.marked = FALSE]

RubricCriterion_clearValidationErrors(c) ==
    [c EXCEPT !.marked = FALSE,
              !.options = [j \in DOMAIN c.options |->
                              RubricOption_clearValidationErrors(c.options[j])]]

RECURSIVE Times(_, _)
\* The calls made by n listeners that each make the calls in s.
Times(n, s) == IF n = 0 THEN <<>> ELSE s \o Times(n - 1, s)

(***************************************************************************)
(* Initial state: an editor with no criteria and no examples, showing the  *)
(* empty-state placeholder.                                                *)
(***************************************************************************)
Init ==
    /\ examples = <<>>
    /\ menu = <<>>
    /\ bgHidden = FALSE
    /\ criteria = <<>>
    /\ training = <<>>
    /\ fired = <<>>
    /\ last = [op |-> "init"]

(***************************************************************************)
(* Operations on the AI examples.  The container calls, for an added item, *)
(* the constructor, addEventListeners() and addHandler(); for a removed    *)
(* item, removeHandler() and then detaches its element.                    *)
(***************************************************************************)
\* One example and one menu item are added together.
AddExamplePair ==
    /\ Len(examples) < MaxExamples
    /\ Len(menu) < MaxExamples
    /\ LET e == AIExample_addHandler(AIExample_addEventListeners(AIExample_new), examples)
           m == AIExampleMenuItem_addHandler(
                    AIExampleMenuItem_addEventListeners(AIExampleMenuItem_new), menu)
       IN /\ examples' = Append(examples, [e EXCEPT !.assigned = e.name])
          /\ menu' = Append(menu, [m EXCEPT !.assigned = m.name])
          /\ last' = [op |-> "addPair", exampleName |-> e.name, menuName |-> m.name,
                      exampleUsed |-> ExampleNames(examples),
                      menuUsed |-> MenuNames(menu)]
    /\ fired' = <<>>
    /\ UNCHANGED <<bgHidden, criteria, training>>

\* A click on menu item i runs every click listener installed on it.
ClickMenuItem(i) ==
    /\ i \in DOMAIN menu
    /\ LET st == RunClickListeners([exs |-> examples, mnu |-> menu, bg |-> bgHidden],
                                   menu[i].clicks)
       IN /\ examples' = st.exs
          /\ menu' = st.mnu
          /\ bgHidden' = st.bg
    /\ last' = [op |-> "click", index |-> i, name |-> menu[i].name]
    /\ fired' = <<>>
    /\ UNCHANGED <<criteria, training>>

\* The container removes menu item i: removeHandler(), then the element.
RemoveMenuItem(i) ==
    /\ i \in DOMAIN menu
    /\ LET r == AIExampleMenuItem_removeHandler(examples, bgHidden, menu[i])
       IN /\ examples' = r.exs
          /\ bgHidden' = r.bg
          /\ last' = [op |-> "removeMenuItem", name |-> menu[i].name,
                      examplesBefore |-> examples, bgBefore |-> bgHidden,
                      revealed |-> r.revealed]
    /\ menu' = RemoveAt(menu, i)
    /\ fired' = <<>>
    /\ UNCHANGED <<criteria, training>>

\* The label field of example i is edited and loses focus: every focusout
\* listener installed on it runs updateHandler.
LabelFocusOut(i, text) ==
    /\ i \in DOMAIN examples
    /\ LET e == [examples[i] EXCEPT !.label = text]
       IN /\ examples' = [examples EXCEPT ![i] = e]
          /\ menu' = IF e.listeners > 0 THEN AIExample_updateHandler(e, menu) ELSE menu
          /\ last' = [op |-> "updateExample", index |-> i, name |-> e.name,
                      label |-> text, menuBefore |-> menu]
    /\ fired' = <<>>
    /\ UNCHANGED <<bgHidden, criteria, training>>

\* Adding, selecting and removing example pairs.
NextPairing ==
    \/ AddExamplePair
    \/ \E i \in 1..MaxExamples : ClickMenuItem(i)
    \/ \E i \in 1..MaxExamples : RemoveMenuItem(i)

SpecPairing == Init /\ [][NextPairing]_vars

\* The same, with label edits.
NextAI ==
    \/ AddExamplePair
    \/ \E i \in 1..MaxExamples : ClickMenuItem(i)
    \/ \E i \in 1..MaxExamples : RemoveMenuItem(i)
    \/ \E i \in 1..MaxExamples, text \in LabelInputs : LabelFocusOut(i, text)

SpecAI == Init /\ [][NextAI]_vars

(***************************************************************************)
(* Operations on the rubric.                                               *)
(***************************************************************************)
\* The criterion container adds a criterion cloned from its template.
AddCriterion ==
    /\ Len(criteria) < MaxCriteria
    /\ LET c == RubricCriterion_addHandler(
                    RubricCriterion_addEventListeners(RubricCriterion_new), criteria)
       IN /\ criteria' = Append(criteria, [c EXCEPT !.assigned = c.name])
          /\ last' = [op |-> "addCriterion", name |-> c.name,
                      used |-> CriterionNames(criteria)]
    /\ fired' = <<>>
    /\ UNCHANGED <<examples, menu, bgHidden, training>>

\* The criterion container removes criterion c, its options with it.
RemoveCriterion(c) ==
    /\ c \in DOMAIN criteria
    /\ fired' = RubricCriterion_removeHandler(criteria[c])
    /\ criteria' = RemoveAt(criteria, c)
    /\ last' = [op |-> "removeCriterion", name |-> criteria[c].name,
                options |-> Len(criteria[c].options)]
    /\ UNCHANGED <<examples, menu, bgHidden, training>>

\* RubricCriterion.addOption(): the option container of criterion c adds
\* an option cloned from the option template.
AddOption(c) ==
    /\ c \in DOMAIN criteria
    /\ Len(criteria[c].options) < MaxOptions
    /\ LET siblings == criteria[c].options
           r == RubricOption_addHandler(
                    RubricOption_addEventListeners(RubricOption_new), criteria[c], siblings)
           sent == [criterionName |-> r.fired[1].criterionName, name |-> r.fired[1].name]
       IN /\ criteria' = [criteria EXCEPT
                              ![c].options = Append(@, [r.item EXCEPT !.added = sent])]
          /\ fired' = r.fired
          /\ last' = [op |-> "addOption", criterion |-> c,
                      used |-> OptionNames(siblings)]
    /\ UNCHANGED <<examples, menu, bgHidden, training>>

\* The option container of criterion c removes its option i.
RemoveOption(c, i) ==
    /\ c \in DOMAIN criteria
    /\ i \in DOMAIN criteria[c].options
    /\ fired' = RubricOption_removeHandler(criteria[c].options[i])
    /\ criteria' = [criteria EXCEPT ![c].options = RemoveAt(@, i)]
    /\ last' = [op |-> "removeOption", criterion |-> c,
                name |-> criteria[c].options[i].option]
    /\ UNCHANGED <<examples, menu, bgHidden, training>>

\* A field of option i of criterion c loses focus: the focusout listeners of
\* the option run, then, the event bubbling, those of its criterion.
OptionFocusOut(c, i) ==
    /\ c \in DOMAIN criteria
    /\ i \in DOMAIN criteria[c].options
    /\ LET o == criteria[c].options[i]
       IN fired' = Times(o.listeners, RubricOption_updateHandler(o))
                      \o Times(criteria[c].listeners, RubricCriterion_updateHandler(criteria[c]))
    /\ last' = [op |-> "optionFocusOut", criterion |-> c, option |-> i]
    /\ UNCHANGED <<examples, menu, bgHidden, criteria, training>>

\* A field of criterion c outside its options loses focus.
CriterionFocusOut(c) ==
    /\ c \in DOMAIN criteria
    /\ fired' = Times(criteria[c].listeners, RubricCriterion_updateHandler(criteria[c]))
    /\ last' = [op |-> "criterionFocusOut", criterion |-> c]
    /\ UNCHANGED <<examples, menu, bgHidden, criteria, training>>

NextRubric ==
    \/ AddCriterion
    \/ \E c \in 1..MaxCriteria : RemoveCriterion(c)
    \/ \E c \in 1..MaxCriteria : AddOption(c)
    \/ \E c \in 1..MaxCriteria, i \in 1..MaxOptions : RemoveOption(c, i)

SpecRubric == Init /\ [][NextRubric]_vars

(***************************************************************************)
(* The hooks of a criterion called one at a time, as the item contract     *)
(* exposes them: addEventListeners() and addHandler() are separate calls   *)
(* and a focusout may be dispatched on a criterion whose addHandler() has  *)
(* not run.                                                                *)
(***************************************************************************)
\* OpenAssessment.Fields.stringField(sel, value) with a value: the field is set.
RubricCriterion_label(c, label) == [c EXCEPT !.label = label]

\* A criterion is cloned from the template and constructed, and its
\* listeners are installed.
InsertCriterion ==
    /\ Len(criteria) < MaxCriteria
    /\ criteria' = Append(criteria, RubricCriterion_addEventListeners(RubricCriterion_new))
    /\ fired' = <<>>
    /\ last' = [op |-> "insertCriterion"]
    /\ UNCHANGED <<examples, menu, bgHidden, training>>

\* addHandler() of a criterion that has not had it yet.
CriterionAddHandler(c) ==
    /\ c \in DOMAIN criteria
    /\ criteria[c].assigned = Undefined
    /\ LET named == RubricCriterion_addHandler(criteria[c], RemoveAt(criteria, c))
       IN /\ criteria' = [criteria EXCEPT ![c] = [named EXCEPT !.assigned = named.name]]
          /\ last' = [op |-> "addCriterion", name |-> named.name,
                      used |-> CriterionNames(RemoveAt(criteria, c))]
    /\ fired' = <<>>
    /\ UNCHANGED <<examples, menu, bgHidden, training>>

\* criterion.label(text)
SetCriterionLabel(c, text) ==
    /\ c \in DOMAIN criteria
    /\ criteria' = [criteria EXCEPT ![c] = RubricCriterion_label(@, text)]
    /\ fired' = <<>>
    /\ last' = [op |-> "criterionLabel", criterion |-> c]
    /\ UNCHANGED <<examples, menu, bgHidden, training>>

NextRender ==
    \/ InsertCriterion
    \/ \E c \in 1..MaxCriteria : CriterionAddHandler(c)
    \/ \E c \in 1..MaxCriteria, text \in LabelInputs : SetCriterionLabel(c, text)
    \/ \E c \in 1..MaxCriteria : CriterionFocusOut(c)
    \/ \E c \in 1..MaxCriteria : RemoveCriterion(c)

SpecRender == Init /\ [][NextRender]_vars

(***************************************************************************)
(* Validation of one criterion and its options.                            *)
(***************************************************************************)
PromptInputs == {EmptyText, "Describe"}
PointsInputs == {Num(1), Num(1000)}

AddFirstCriterion ==
    /\ criteria = <<>>
    /\ AddCriterion

SetPrompt(c, text) ==
    /\ c \in DOMAIN criteria
    /\ criteria' = [criteria EXCEPT ![c] = RubricCriterion_prompt(@, text)]
    /\ fired' = <<>>
    /\ last' = [op |-> "criterionPrompt", criterion |-> c]
    /\ UNCHANGED <<examples, menu, bgHidden, training>>

SetPoints(c, i, points) ==
    /\ c \in DOMAIN criteria
    /\ i \in DOMAIN criteria[c].options
    /\ criteria' = [criteria EXCEPT ![c].options[i] = RubricOption_points(@, points)]
    /\ fired' = <<>>
    /\ last' = [op |-> "optionPoints", criterion |-> c, option |-> i]
    /\ UNCHANGED <<examples, menu, bgHidden, training>>

ValidateCriterion(c) ==
    /\ c \in DOMAIN criteria
    /\ LET r == RubricCriterion_validate(criteria[c])
       IN /\ criteria' = [criteria EXCEPT ![c] = r.item]
          /\ last' = [op |-> "validateCriterion", criterion |-> c, result |-> r.valid,
                      before |-> criteria[c]]
    /\ fired' = <<>>
    /\ UNCHANGED <<examples, menu, bgHidden, training>>

ValidateOption(c, i) ==
    /\ c \in DOMAIN criteria
    /\ i \in DOMAIN criteria[c].options
    /\ LET r == RubricOption_validate(criteria[c].options[i])
       IN /\ criteria' = [criteria EXCEPT ![c].options[i] = r.item]
          /\ last' = [op |-> "validateOption", criterion |-> c, option |-> i,
                      result |-> r.valid, before |-> criteria[c].options[i]]
    /\ fired' = <<>>
    /\ UNCHANGED <<examples, menu, bgHidden, training>>

\* criterion.validationErrors() and criterion.getFieldValues(): reads.
ReadCriterion(c) ==
    /\ c \in DOMAIN criteria
    /\ last' = [op |-> "readCriterion", criterion |-> c,
                errors |-> RubricCriterion_validationErrors(criteria[c]),
                fields |-> RubricCriterion_getFieldValues(criteria[c])]
    /\ fired' = <<>>
    /\ UNCHANGED <<examples, menu, bgHidden, criteria, training>>

ClearCriterion(c) ==
    /\ c \in DOMAIN criteria
    /\ criteria' = [criteria EXCEPT ![c] = RubricCriterion_clearValidationErrors(@)]
    /\ last' = [op |-> "clearCriterion", criterion |-> c, before |-> criteria[c],
                again |-> last.op = "clearCriterion"]
    /\ fired' = <<>>
    /\ UNCHANGED <<examples, menu, bgHidden, training>>

ClearOption(c, i) ==
    /\ c \in DOMAIN criteria
    /\ i \in DOMAIN criteria[c].options
    /\ criteria' = [criteria EXCEPT ![c].options[i] = RubricOption_clearValidationErrors(@)]
    /\ last' = [op |-> "clearOption", criterion |-> c, option |-> i,
                before |-> criteria[c].options[i],
                again |-> last.op = "clearOption" /\ last.option = i]
    /\ fired' = <<>>
    /\ UNCHANGED <<examples, menu, bgHidden, training>>

NextValidate ==
    \/ AddFirstCriterion
    \/ \E c \in 1..MaxCriteria : AddOption(c)
    \/ \E c \in 1..MaxCriteria, text \in PromptInputs : SetPrompt(c, text)
    \/ \E c \in 1..MaxCriteria, i \in 1..MaxOptions, points \in PointsInputs :
          SetPoints(c, i, points)
    \/ \E c \in 1..MaxCriteria : ValidateCriterion(c)
    \/ \E c \in 1..MaxCriteria, i \in 1..MaxOptions : ValidateOption(c, i)
    \/ \E c \in 1..MaxCriteria : ReadCriterion(c)
    \/ \E c \in 1..MaxCriteria : ClearCriterion(c)
    \/ \E c \in 1..MaxCriteria, i \in 1..MaxOptions : ClearOption(c, i)

SpecValidate == Init /\ [][NextValidate]_vars

(***************************************************************************)
(* One option whose points field holds any value around [min, max].        *)
(***************************************************************************)
PointsDomain ==
    {Num(n) : n \in (MinPoints - PointsMargin)..(MaxPoints + PointsMargin)} \cup {NaN}

\* A criterion with one option, both added through their containers, and a
\* value typed into the points field.
InitPoints ==
    /\ examples = <<>>
    /\ menu = <<>>
    /\ bgHidden = FALSE
    /\ training = <<>>
    /\ fired = <<>>
    /\ last = [op |-> "init"]
    /\ \E points \in PointsDomain :
          LET crit == RubricCriterion_addHandler(
                          RubricCriterion_addEventListeners(RubricCriterion_new), <<>>)
              named == [crit EXCEPT !.assigned = crit.name]
              r == RubricOption_addHandler(
                       RubricOption_addEventListeners(RubricOption_new), named, <<>>)
              opt == [r.item EXCEPT !.added = [criterionName |-> r.fired[1].criterionName,
                                               name |-> r.fired[1].name]]
          IN criteria = << [named EXCEPT !.options = << RubricOption_points(opt, points) >>] >>

NextPoints ==
    \/ \E c \in 1..MaxCriteria, i \in 1..MaxOptions : ValidateOption(c, i)
    \/ \E c \in 1..MaxCriteria, i \in 1..MaxOptions : ClearOption(c, i)

SpecPoints == InitPoints /\ [][NextPoints]_vars

(***************************************************************************)
(* Validation of the examples: one training example, one AI example, and   *)
(* one criterion, each with its marks.                                     *)
(***************************************************************************)
\* Container.add() of a training example: constructor, addEventListeners()
\* (none for this kind), addHandler().
AddFirstTrainingExample ==
    /\ training = <<>>
    /\ training' = << TrainingExample_addHandler(TrainingExample_new) >>
    /\ fired' = <<>>
    /\ last' = [op |-> "addTraining"]
    /\ UNCHANGED <<examples, menu, bgHidden, criteria>>

AddFirstExamplePair ==
    /\ examples = <<>>
    /\ menu = <<>>
    /\ AddExamplePair

\* The user selects value in dropdown d of training example i.
SelectTrainingOption(i, d, value) ==
    /\ i \in DOMAIN training
    /\ d \in DOMAIN training[i].criteria
    /\ training' = [training EXCEPT ![i].criteria[d].value = value]
    /\ fired' = <<>>
    /\ last' = [op |-> "selectTraining", example |-> i, dropdown |-> d]
    /\ UNCHANGED <<examples, menu, bgHidden, criteria>>

ValidateTraining(i) ==
    /\ i \in DOMAIN training
    /\ LET r == TrainingExample_validate(training[i])
       IN /\ training' = [training EXCEPT ![i] = r.item]
          /\ last' = [op |-> "validateTraining", example |-> i, result |-> r.valid,
                      before |-> training[i]]
    /\ fired' = <<>>
    /\ UNCHANGED <<examples, menu, bgHidden, criteria>>

\* example.validationErrors() and example.getFieldValues(): reads.
ReadTraining(i) ==
    /\ i \in DOMAIN training
    /\ last' = [op |-> "readTraining", example |-> i,
                errors |-> TrainingExample_validationErrors(training[i]),
                fields |-> TrainingExample_getFieldValues(training[i])]
    /\ fired' = <<>>
    /\ UNCHANGED <<examples, menu, bgHidden, criteria, training>>

ClearTraining(i) ==
    /\ i \in DOMAIN training
    /\ training' = [training EXCEPT ![i] = TrainingExample_clearValidationErrors(@)]
    /\ last' = [op |-> "clearTraining", example |-> i, before |-> training[i],
                again |-> last.op = "clearTraining"]
    /\ fired' = <<>>
    /\ UNCHANGED <<examples, menu, bgHidden, criteria>>

\* The user selects value in dropdown d of AI example i.
SelectExampleOption(i, d, value) ==
    /\ i \in DOMAIN examples
    /\ d \in DOMAIN examples[i].criteria
    /\ examples' = [examples EXCEPT ![i].criteria[d].value = value]
    /\ fired' = <<>>
    /\ last' = [op |-> "selectExample", example |-> i, dropdown |-> d]
    /\ UNCHANGED <<menu, bgHidden, criteria, training>>

ValidateExample(i) ==
    /\ i \in DOMAIN examples
    /\ LET r == AIExample_validate(examples[i])
       IN /\ examples' = [examples EXCEPT ![i] = r.item]
          /\ last' = [op |-> "validateExample", example |-> i, result |-> r.valid,
                      before |-> examples[i]]
    /\ fired' = <<>>
    /\ UNCHANGED <<menu, bgHidden, criteria, training>>

ReadExample(i) ==
    /\ i \in DOMAIN examples
    /\ last' = [op |-> "readExample", example |-> i,
                errors |-> AIExample_validationErrors(examples[i]),
                fields |-> AIExample_getFieldValues(examples[i])]
    /\ fired' = <<>>
    /\ UNCHANGED <<examples, menu, bgHidden, criteria, training>>

ClearExample(i) ==
    /\ i \in DOMAIN examples
    /\ examples' = [examples EXCEPT ![i] = AIExample_clearValidationErrors(@)]
    /\ last' = [op |-> "clearExample", example |-> i, before |-> examples[i],
                again |-> last.op = "clearExample"]
    /\ fired' = <<>>
    /\ UNCHANGED <<menu, bgHidden, criteria, training>>

NextExamples ==
    \/ AddFirstTrainingExample
    \/ AddFirstExamplePair
    \/ \E i \in 1..MaxExamples, d \in DOMAIN TemplateDropdowns, value \in SelectInputs :
          SelectTrainingOption(i, d, value)
    \/ \E i \in 1..MaxExamples : ValidateTraining(i)
    \/ \E i \in 1..MaxExamples : ReadTraining(i)
    \/ \E i \in 1..MaxExamples : ClearTraining(i)
    \/ \E i \in 1..MaxExamples, d \in DOMAIN TemplateDropdowns, value \in SelectInputs :
          SelectExampleOption(i, d, value)
    \/ \E i \in 1..MaxExamples : ValidateExample(i)
    \/ \E i \in 1..MaxExamples : ReadExample(i)
    \/ \E i \in 1..MaxExamples : ClearExample(i)

SpecExamples == Init /\ [][NextExamples]_vars

(***************************************************************************)
(* Rendering of one dropdown option by TrainingExample.addHandler          *)
(***************************************************************************)
\* data-points as the page renders it: a decimal number, "NaN", or absent.
PointsAttrs == {Str(n) : n \in 0..MaxShownPoints} \cup {NaNAttr, Undefined}

\* data-label: empty or not.
LabelAttrs == {EmptyText, "Good"}

\* A training example in the page whose one dropdown holds one option, its
\* text not yet rendered.
InitFormat ==
    /\ examples = <<>>
    /\ menu = <<>>
    /\ bgHidden = FALSE
    /\ criteria = <<>>
    /\ fired = <<>>
    /\ last = [op |-> "init"]
    /\ \E points \in PointsAttrs, label \in LabelAttrs, value \in SelectInputs :
          training = << [TrainingExample_new EXCEPT !.criteria =
                            << [TemplateDropdown(Str(0)) EXCEPT !.options =
                                   << OptionElement(points, label, value) >>] >>] >>

\* addHandler() of training example i.
TrainingAddHandler(i) ==
    /\ i \in DOMAIN training
    /\ training' = [training EXCEPT ![i] = TrainingExample_addHandler(@)]
    /\ fired' = <<>>
    /\ last' = [op |-> "trainingAddHandler", example |-> i, before |-> training[i]]
    /\ UNCHANGED <<examples, menu, bgHidden, criteria>>

NextFormat == \E i \in 1..MaxExamples : TrainingAddHandler(i)

SpecFormat == InitFormat /\ [][NextFormat]_vars

(***************************************************************************)
(* clearValidationErrors() of every kind of item, from any marks.          *)
(***************************************************************************)
ClearMenuItem(i) ==
    /\ i \in DOMAIN menu
    /\ menu' = [menu EXCEPT ![i] = AIExampleMenuItem_clearValidationErrors(@)]
    /\ last' = [op |-> "clearMenuItem", item |-> i, before |-> menu[i],
                again |-> last.op = "clearMenuItem"]
    /\ fired' = <<>>
    /\ UNCHANGED <<examples, bgHidden, criteria, training>>

RECURSIVE CriterionWithOptions(_)
\* The first criterion of a rubric after its container added k options.
CriterionWithOptions(k) ==
    IF k = 0
    THEN LET c == RubricCriterion_addHandler(
                      RubricCriterion_addEventListeners(RubricCriterion_new), <<>>)
         IN [c EXCEPT !.assigned = c.name]
    ELSE LET crit == CriterionWithOptions(k - 1)
             r == RubricOption_addHandler(
                      RubricOption_addEventListeners(RubricOption_new), crit, crit.options)
             sent == [criterionName |-> r.fired[1].criterionName, name |-> r.fired[1].name]
         IN [crit EXCEPT !.options = Append(@, [r.item EXCEPT !.added = sent])]

\* A criterion with up to MaxOptions options, a training example and an AI
\* example with its menu item, each field with or without the error mark.
InitClear ==
    /\ bgHidden = FALSE
    /\ fired = <<>>
    /\ last = [op |-> "init"]
    /\ \E k \in 0..MaxOptions, promptMark \in BOOLEAN :
          \E marks \in [1..k -> BOOLEAN] :
             LET crit == CriterionWithOptions(k)
             IN criteria = << [crit EXCEPT
                                  !.marked = promptMark,
                                  !.options = [j \in 1..k |->
                                                  [crit.options[j] EXCEPT !.marked = marks[j]]]] >>
    /\ \E marks \in [DOMAIN TemplateDropdowns -> BOOLEAN] :
          LET e == TrainingExample_addHandler(TrainingExample_new)
          IN training = << [e EXCEPT !.criteria =
                               [d \in DOMAIN e.criteria |->
                                   [e.criteria[d] EXCEPT !.marked = marks[d]]]] >>
    /\ \E marks \in [DOMAIN TemplateDropdowns -> BOOLEAN] :
          LET e == AIExample_addHandler(AIExample_addEventListeners(AIExample_new), <<>>)
              m == AIExampleMenuItem_addHandler(
                       AIExampleMenuItem_addEventListeners(AIExampleMenuItem_new), <<>>)
          IN /\ examples = << [e EXCEPT !.assigned = e.name,
                                       !.criteria =
                                          [d \in DOMAIN e.criteria |->
                                              [e.criteria[d] EXCEPT !.marked = marks[d]]]] >>
             /\ menu = << [m EXCEPT !.assigned = m.name] >>

NextClear ==
    \/ \E c \in 1..MaxCriteria : ClearCriterion(c)
    \/ \E c \in 1..MaxCriteria, i \in 1..MaxOptions : ClearOption(c, i)
    \/ \E i \in 1..MaxExamples : ClearTraining(i)
    \/ \E i \in 1..MaxExamples : ClearExample(i)
    \/ \E i \in 1..MaxExamples : ClearMenuItem(i)

SpecClear == InitClear /\ [][NextClear]_vars

(***************************************************************************)
(* Every operation on the items of one page of at most MaxItems items.     *)
(***************************************************************************)
RECURSIVE OptionCount(_, _)
\* The options under the first n criteria.
OptionCount(crits, n) ==
    IF n = 0 THEN 0 ELSE OptionCount(crits, n - 1) + Len(crits[n].options)

PageItems ==
    Len(criteria) + OptionCount(criteria, Len(criteria)) + Len(examples) + Len(menu)

AddCriterionToPage ==
    /\ PageItems < MaxItems
    /\ AddCriterion

AddOptionToPage(c) ==
    /\ PageItems < MaxItems
    /\ AddOption(c)

\* An example and its menu item are two items.
AddExamplePairToPage ==
    /\ PageItems + 1 < MaxItems
    /\ AddExamplePair

NextPage ==
    \/ AddCriterionToPage
    \/ \E c \in 1..MaxCriteria : AddOptionToPage(c)
    \/ AddExamplePairToPage
    \/ \E c \in 1..MaxCriteria : RemoveCriterion(c)
    \/ \E c \in 1..MaxCriteria, i \in 1..MaxOptions : RemoveOption(c, i)
    \/ \E i \in 1..MaxExamples : RemoveMenuItem(i)
    \/ \E c \in 1..MaxCriteria, i \in 1..MaxOptions : OptionFocusOut(c, i)
    \/ \E c \in 1..MaxCriteria : CriterionFocusOut(c)
    \/ \E i \in 1..MaxExamples, text \in LabelInputs : LabelFocusOut(i, text)
    \/ \E i \in 1..MaxExamples : ClickMenuItem(i)
    \/ \E c \in 1..MaxCriteria : ValidateCriterion(c)
    \/ \E i \in 1..MaxExamples : ValidateExample(i)
    \/ \E c \in 1..MaxCriteria : ReadCriterion(c)
    \/ \E i \in 1..MaxExamples : ReadExample(i)
    \/ \E c \in 1..MaxCriteria : ClearCriterion(c)
    \/ \E i \in 1..MaxExamples : ClearExample(i)

SpecPage == Init /\ [][NextPage]_vars

(***************************************************************************)
(* createUniqueName on its own: any selector length, any identifiers in    *)
(* use under the selector's parent.                                        *)
(***************************************************************************)
\* The attribute values found under the parent: decimal strings, and
\* undefined for an element that has no identifier yet.
UsedNames == {Str(n) : n \in 0..MaxUsedName} \cup {Undefined}

InitNames ==
    /\ examples = <<>>
    /\ menu = <<>>
    /\ bgHidden = FALSE
    /\ criteria = <<>>
    /\ training = <<>>
    /\ fired = <<>>
    /\ \E selectorLength \in 0..MaxSelector, used \in SUBSET UsedNames :
          last = [op |-> "names", selectorLength |-> selectorLength, used |-> used]

CallCreateUniqueName ==
    /\ last.op = "names"
    /\ last' = [op |-> "createUniqueName", selectorLength |-> last.selectorLength,
                used |-> last.used,
                run |-> createUniqueNameRun(0, last.selectorLength, last.used)]
    /\ UNCHANGED <<examples, menu, bgHidden, criteria, training, fired>>

NextNames == CallCreateUniqueName

SpecNames == InitNames /\ [][NextNames]_vars

\* The marked fields of the examples and of a criterion: the dropdowns and
\* the prompt.
NextMarks ==
    \/ NextExamples
    \/ AddFirstCriterion
    \/ \E c \in 1..MaxCriteria, text \in PromptInputs : SetPrompt(c, text)
    \/ \E c \in 1..MaxCriteria : ValidateCriterion(c)
    \/ \E c \in 1..MaxCriteria : ReadCriterion(c)
    \/ \E c \in 1..MaxCriteria : ClearCriterion(c)

SpecMarks == Init /\ [][NextMarks]_vars

(***************************************************************************)
(* Properties                                                              *)
(***************************************************************************)
Distinct(names) == \A i, j \in DOMAIN names : i # j => names[i] # names[j]

NamesOf(items) == [j \in DOMAIN items |-> items[j].name]

\* C1: after any sequence of lockstep adds and removals, no two live
\* AIExamples carry the same data-example identifier and no two live
\* AIExampleMenuItems carry the same data-example identifier.
C1_UniqueExampleNames ==
    /\ Distinct(NamesOf(examples))
    /\ Distinct(NamesOf(menu))

\* C2: every call of createUniqueName made by an item returns the decimal
\* string of the smallest non-negative integer that no element under the
\* selector's parent carries.
C2_SmallestFree ==
    /\ last.op = "addPair" =>
          /\ last.exampleName = Str(SmallestFree(last.exampleUsed))
          /\ last.menuName = Str(SmallestFree(last.menuUsed))
    /\ last.op = "addCriterion" => last.name = Str(SmallestFree(last.used))
    /\ last.op = "addOption" =>
          LET opts == criteria[last.criterion].options
          IN opts[Len(opts)].option = Str(SmallestFree(last.used))

\* C3: the live options of one criterion have pairwise different data-option
\* identifiers and the live criteria have pairwise different data-criterion
\* identifiers.
C3_UniqueRubricNames ==
    /\ Distinct(NamesOf(criteria))
    /\ \A c \in DOMAIN criteria :
          Distinct([j \in DOMAIN criteria[c].options |-> criteria[c].options[j].option])

\* Identifier 0 was freed and given out again, next to a criterion with options.
C3_Witness ==
    /\ Len(criteria) = 2
    /\ criteria[1].name = Str(1)
    /\ criteria[2].name = Str(0)
    /\ Len(criteria[1].options) >= 2
    /\ last.op = "addCriterion"

\* C4: every live menu item identifier has exactly one live AIExample with
\* the same identifier, and every live AIExample has exactly one live menu
\* item with its identifier.
C4_OneToOne ==
    /\ \A i \in DOMAIN menu :
          Cardinality({j \in DOMAIN examples : examples[j].name = menu[i].name}) = 1
    /\ \A j \in DOMAIN examples :
          Cardinality({i \in DOMAIN menu : menu[i].name = examples[j].name}) = 1

\* C5: at every lockstep add the identifier given to the new AIExample
\* equals the identifier given to the new AIExampleMenuItem.
C5_SameNameAtAdd ==
    last.op = "addPair" =>
        /\ last.exampleName = last.menuName
        /\ examples[Len(examples)].name = menu[Len(menu)].name

\* A pair is added after the pair with identifier 0 was removed.
C5_Witness ==
    /\ last.op = "addPair"
    /\ last.exampleName = Str(0)
    /\ Len(examples) >= 2
    /\ Len(menu) >= 2

\* C6: an option added to a criterion receives the smallest identifier not
\* held by an option remaining in that criterion: "0" in an empty criterion,
\* "1" next to "0", and "0" again once "0" was removed.
C6_GapReuse ==
    last.op = "addOption" =>
        LET opts == criteria[last.criterion].options
            name == opts[Len(opts)].option
        IN /\ name = Str(SmallestFree(last.used))
           /\ last.used = {} => name = Str(0)
           /\ last.used = {Str(0)} => name = Str(1)
           /\ Str(0) \notin last.used => name = Str(0)

\* An option is added to a criterion whose option "0" was removed.
C6_Witness ==
    /\ last.op = "addOption"
    /\ last.used = {Str(1)}
    /\ LET opts == criteria[last.criterion].options
       IN /\ Len(opts) = 2
          /\ opts[1].option = Str(1)
          /\ opts[2].option = Str(0)

\* C7: after a click on the menu item with identifier k, the AIExample with
\* identifier k is not hidden and every other AIExample is hidden, and the
\* clicked menu item is not faded while every other menu item is faded.
C7_Selection ==
    last.op = "click" =>
        /\ \A j \in DOMAIN examples :
              examples[j].hidden <=> examples[j].name # last.name
        /\ \A j \in DOMAIN menu :
              menu[j].faded <=> j # last.index

\* C8: removeHandler of a menu item reveals the placeholder if and only if
\* the paired AIExample is the only one remaining or is the visible one,
\* leaves the placeholder as it was otherwise, and detaches the paired
\* AIExample and no other.
C8_Removal ==
    last.op = "removeMenuItem" =>
        LET before == last.examplesBefore
            paired == {j \in DOMAIN before : before[j].name = last.name}
        IN /\ Cardinality(paired) = 1
           /\ Len(examples) = Len(before) - 1
           /\ examples = SelectSeqBy(before, DOMAIN before \ paired)
           /\ last.revealed <=>
                 \/ Len(before) = 1
                 \/ \E j \in paired : ~before[j].hidden
           /\ last.revealed => ~bgHidden
           /\ ~last.revealed => bgHidden = last.bgBefore

\* C9: updateHandler of the AIExample with identifier k makes the text of
\* the menu item with identifier k the example's label and leaves the text
\* of every menu item with another identifier as it was.
C9_LabelPropagation ==
    last.op = "updateExample" =>
        /\ Len(menu) = Len(last.menuBefore)
        /\ \A j \in DOMAIN menu :
              IF menu[j].name = last.name
              THEN menu[j].text = last.label
              ELSE menu[j].text = last.menuBefore[j].text

\* C10: Option.addHandler fires exactly one notification, optionAdd, whose
\* name is the identifier just generated and whose criterionName is the
\* identifier of the owning criterion, and the option element and its name
\* field already carry the identifier when the notification is dispatched.
C10_OptionAddNotification ==
    last.op = "addOption" =>
        LET crit == criteria[last.criterion]
            opt == crit.options[Len(crit.options)]
        IN /\ Len(fired) = 1
           /\ fired[1].event = "optionAdd"
           /\ fired[1].name = opt.option
           /\ fired[1].name = Str(SmallestFree(last.used))
           /\ LooseEq(fired[1].criterionName, crit.name)
           /\ fired[1].dom.option = fired[1].name
           /\ fired[1].dom.nameField = fired[1].name
           /\ LooseEq(fired[1].dom.criterion, fired[1].criterionName)

\* An option is added to the second criterion, next to another option.
C10_Witness ==
    /\ last.op = "addOption"
    /\ last.criterion = 2
    /\ criteria[2].name = Str(1)
    /\ Len(criteria[2].options) >= 2
    /\ Len(fired) = 1

\* C11: every optionUpdated and optionRemove notification of an option
\* carries the criterionName and the name its optionAdd notification
\* carried (a number and its decimal string being the same identifier).
C11_StablePayloadIdentity ==
    \A n \in DOMAIN fired :
        fired[n].event \in {"optionUpdated", "optionRemove"} =>
            /\ LooseEq(fired[n].criterionName, fired[n].dom.added.criterionName)
            /\ LooseEq(fired[n].name, fired[n].dom.added.name)
            /\ fired[n].criterionName # Undefined
            /\ fired[n].name # Undefined

\* The second option of the second criterion is removed after other
\* options and criteria were added and removed around it.
C11_Witness ==
    /\ last.op = "removeOption"
    /\ Len(fired) = 1
    /\ fired[1].event = "optionRemove"
    /\ fired[1].dom.added.name = Str(1)
    /\ fired[1].dom.added.criterionName = Num(1)
    /\ Len(criteria) = 1

\* C12: a focusout on a criterion always fires criterionUpdated; once
\* addHandler has run its criterionName is the assigned identifier, and
\* before that (the name field still empty) it is fired all the same, with
\* criterionName undefined.
C12_CriterionUpdated ==
    last.op = "criterionFocusOut" =>
        LET crit == criteria[last.criterion]
        IN /\ Len(fired) = 1
           /\ fired[1].event = "criterionUpdated"
           /\ fired[1].criterionLabel = crit.label
           /\ crit.assigned # Undefined =>
                 /\ fired[1].criterionName = crit.assigned
                 /\ fired[1].criterionName = crit.name
           /\ crit.nameField = EmptyString => fired[1].criterionName = Undefined
           /\ crit.assigned # Undefined \/ crit.nameField = EmptyString

\* A focusout on a criterion whose addHandler has not run.
C12_Witness ==
    /\ last.op = "criterionFocusOut"
    /\ criteria[last.criterion].assigned = Undefined
    /\ criteria[last.criterion].label = "Foo"
    /\ Len(fired) = 1
    /\ fired[1].criterionName = Undefined

\* C13: getFieldValues() of an option added on the client has no name key
\* after its addHandler has run.
C13_NoNameKey ==
    \A c \in DOMAIN criteria : \A i \in DOMAIN criteria[c].options :
        RubricOption_getFieldValues(criteria[c].options[i]).name = Undefined

\* C14: Criterion.validate() returns true if and only if the prompt is not
\* empty and validate() of every option returns true; it marks the prompt
\* when the prompt is empty, and it runs validate() on every option (each
\* failing option is marked) even when the prompt is empty or an earlier
\* option failed.
C14_CriterionValidate ==
    last.op = "validateCriterion" =>
        LET before == last.before
            crit == criteria[last.criterion]
        IN /\ last.result <=>
                 /\ before.prompt # EmptyText
                 /\ \A j \in DOMAIN before.options :
                       RubricOption_validate(before.options[j]).valid
           /\ before.prompt = EmptyText => crit.marked
           /\ crit.marked <=> (before.marked \/ before.prompt = EmptyText)
           /\ Len(crit.options) = Len(before.options)
           /\ \A j \in DOMAIN before.options :
                 crit.options[j].marked <=>
                     \/ before.options[j].marked
                     \/ ~RubricOption_validate(before.options[j]).valid

\* validate() on a criterion with an empty prompt and two failing options
\* that were not marked: both options are marked now.
C14_Witness ==
    /\ last.op = "validateCriterion"
    /\ last.before.prompt = EmptyText
    /\ Len(last.before.options) = 2
    /\ \A j \in 1..2 : ~last.before.options[j].marked
    /\ \A j \in 1..2 : criteria[last.criterion].options[j].marked
    /\ ~last.result

\* C17: Option.validate() returns true if and only if the points value is
\* an integer in [0, 999] (0 and 999 valid, -1 and 1000 not); after a
\* failing validate() validationErrors() is exactly
\* ["Option points are invalid"], after a passing one on an unmarked option
\* it is empty.
C17_OptionValidate ==
    last.op = "validateOption" =>
        LET before == last.before
            opt == criteria[last.criterion].options[last.option]
        IN /\ last.result <=>
                 /\ before.points.t = "number"
                 /\ before.points.v \in 0..999
           /\ before.points = Num(0) => last.result
           /\ before.points = Num(999) => last.result
           /\ before.points = Num(-1) => ~last.result
           /\ before.points = Num(1000) => ~last.result
           /\ ~last.result =>
                 RubricOption_validationErrors(opt) = << "Option points are invalid" >>
           /\ (last.result /\ ~before.marked) =>
                 RubricOption_validationErrors(opt) = <<>>

\* validate() passed on an option with 999 points.
C17_Witness ==
    /\ last.op = "validateOption"
    /\ last.before.points = Num(999)
    /\ last.result
    /\ ~criteria[1].options[1].marked

\* The dropdowns of an example that carry the error mark.
MarkedDropdowns(e) == {d \in DOMAIN e.criteria : e.criteria[d].marked}

\* The dropdowns of an example whose selection is empty.
EmptyDropdowns(e) == {d \in DOMAIN e.criteria : e.criteria[d].value = EmptyString}

\* C15 as stated: validate() marks and unmarks, so after it returns a field
\* (criterion prompt, dropdown of a training or AI example) carries the
\* mark if and only if it is invalid now, and when it returns true
\* validationErrors() is empty.
C15_MarksFollowValidity ==
    /\ last.op = "validateCriterion" =>
          LET crit == criteria[last.criterion]
          IN /\ crit.marked <=> crit.prompt = EmptyText
             /\ last.result => RubricCriterion_validationErrors(crit) = <<>>
    /\ last.op = "validateTraining" =>
          LET e == training[last.example]
          IN /\ MarkedDropdowns(e) = EmptyDropdowns(e)
             /\ last.result => TrainingExample_validationErrors(e) = <<>>
    /\ last.op = "validateExample" =>
          LET e == examples[last.example]
          IN /\ MarkedDropdowns(e) = EmptyDropdowns(e)
             /\ last.result => AIExample_validationErrors(e) = <<>>

\* C15, amended: validate() only adds marks. After it returns, a field
\* (criterion prompt, dropdown of a training or AI example) carries the
\* mark if and only if it is invalid now or it carried the mark before the
\* call; a mark stays until clearValidationErrors(), and validationErrors()
\* reports one message for every mark, also when validate() returned true.
C15_MarksAccumulate ==
    /\ last.op = "validateCriterion" =>
          LET crit == criteria[last.criterion]
          IN crit.marked <=> (last.before.marked \/ crit.prompt = EmptyText)
    /\ last.op = "validateTraining" =>
          LET e == training[last.example]
          IN /\ MarkedDropdowns(e) = MarkedDropdowns(last.before) \cup EmptyDropdowns(e)
             /\ Len(TrainingExample_validationErrors(e)) = Cardinality(MarkedDropdowns(e))
    /\ last.op = "validateExample" =>
          LET e == examples[last.example]
          IN /\ MarkedDropdowns(e) = MarkedDropdowns(last.before) \cup EmptyDropdowns(e)
             /\ Len(AIExample_validationErrors(e)) = Cardinality(MarkedDropdowns(e))

\* validate() returned true on a training example whose dropdowns were
\* corrected after an earlier failing validate(): the marks are still there.
C15_Witness ==
    /\ last.op = "validateTraining"
    /\ last.result
    /\ EmptyDropdowns(training[last.example]) = {}
    /\ MarkedDropdowns(training[last.example]) = DOMAIN TemplateDropdowns
    /\ TrainingExample_validationErrors(training[last.example]) # <<>>

\* C16: TrainingExample.validate() and AIExample.validate() return false
\* if and only if some dropdown has the empty selection; every dropdown
\* with the empty selection is marked by that call, not only the first;
\* validationErrors() afterwards is one message of the kind per marked
\* dropdown.
C16_ExampleValidate ==
    /\ last.op = "validateTraining" =>
          LET e == training[last.example]
              errors == TrainingExample_validationErrors(e)
          IN /\ ~last.result <=> EmptyDropdowns(last.before) # {}
             /\ EmptyDropdowns(last.before) \subseteq MarkedDropdowns(e)
             /\ Len(errors) = Cardinality(MarkedDropdowns(e))
             /\ \A k \in DOMAIN errors : errors[k] = "Student training example is invalid."
    /\ last.op = "validateExample" =>
          LET e == examples[last.example]
              errors == AIExample_validationErrors(e)
          IN /\ ~last.result <=> EmptyDropdowns(last.before) # {}
             /\ EmptyDropdowns(last.before) \subseteq MarkedDropdowns(e)
             /\ Len(errors) = Cardinality(MarkedDropdowns(e))
             /\ \A k \in DOMAIN errors :
                   errors[k] = "An Example Based Assessment Example is invalid."
    /\ last.op = "readTraining" =>
          Len(last.errors) = Cardinality(MarkedDropdowns(training[last.example]))
    /\ last.op = "readExample" =>
          Len(last.errors) = Cardinality(MarkedDropdowns(examples[last.example]))

\* validate() on a training example with no mark and every dropdown empty:
\* it returned false and every dropdown is marked.
C16_Witness ==
    /\ last.op = "validateTraining"
    /\ MarkedDropdowns(last.before) = {}
    /\ EmptyDropdowns(last.before) = DOMAIN TemplateDropdowns
    /\ Cardinality(DOMAIN TemplateDropdowns) > 1
    /\ MarkedDropdowns(training[last.example]) = DOMAIN TemplateDropdowns
    /\ ~last.result

\* data-points holds a decimal number.
IsDecimal(points) == points.t = "string" /\ points.v >= 0

C18_ClearIdempotent ==
    /\ last.op = "clearCriterion" =>
          LET crit == criteria[last.criterion]
          IN /\ RubricCriterion_validationErrors(crit) = <<>>
             /\ ~crit.marked
             /\ \A j \in DOMAIN crit.options : ~crit.options[j].marked
             /\ last.again => crit = last.before
    /\ last.op = "clearOption" =>
          LET opt == criteria[last.criterion].options[last.option]
          IN /\ RubricOption_validationErrors(opt) = <<>>
             /\ last.again => opt = last.before
    /\ last.op = "clearTraining" =>
          /\ TrainingExample_validationErrors(training[last.example]) = <<>>
          /\ MarkedDropdowns(training[last.example]) = {}
          /\ last.again => training[last.example] = last.before
    /\ last.op = "clearExample" =>
          /\ AIExample_validationErrors(examples[last.example]) = <<>>
          /\ MarkedDropdowns(examples[last.example]) = {}
          /\ last.again => examples[last.example] = last.before
    /\ last.op = "clearMenuItem" =>
          /\ AIExampleMenuItem_validationErrors(menu[last.item]) = <<>>
          /\ menu[last.item] = last.before

\* clearValidationErrors() on a criterion whose prompt and MaxOptions
\* options all carried the mark: nothing is reported afterwards.
C18_Witness ==
    /\ last.op = "clearCriterion"
    /\ last.before.marked
    /\ Len(last.before.options) = MaxOptions
    /\ \A j \in DOMAIN last.before.options : last.before.options[j].marked
    /\ Len(RubricCriterion_validationErrors(last.before)) = MaxOptions + 1
    /\ RubricCriterion_validationErrors(criteria[last.criterion]) = <<>>

\* C20: identifiers are write-once: every item on the page still carries
\* the identifier its addHandler gave it (a criterion its data-criterion, an
\* option its data-criterion and data-option, an example and a menu item
\* their data-example-name), whatever was run since on it or on another
\* item: updateHandler, validate, validationErrors, clearValidationErrors,
\* getFieldValues, a click on a menu item, an addHandler or a removeHandler.
C20_WriteOnce ==
    /\ \A c \in DOMAIN criteria :
          /\ criteria[c].assigned # Undefined
          /\ criteria[c].name = criteria[c].assigned
          /\ \A j \in DOMAIN criteria[c].options :
                LET o == criteria[c].options[j]
                IN /\ o.added.name # Undefined
                   /\ o.option = o.added.name
                   /\ Data(o.criterion) = o.added.criterionName
                   /\ Data(o.criterion) = Data(criteria[c].assigned)
    /\ \A i \in DOMAIN examples :
          /\ examples[i].assigned # Undefined
          /\ examples[i].name = examples[i].assigned
    /\ \A i \in DOMAIN menu :
          /\ menu[i].assigned # Undefined
          /\ menu[i].name = menu[i].assigned

\* The label of an example was edited while a criterion with an option was
\* on the page: the menu item shows the label and is still named as it was.
C20_Witness ==
    /\ last.op = "updateExample"
    /\ \E i \in DOMAIN menu :
          /\ menu[i].text = last.label
          /\ menu[i].text # TemplateMenuText
          /\ menu[i].name = last.name
          /\ menu[i].name = menu[i].assigned
    /\ \E c \in DOMAIN criteria :
          /\ criteria[c].options # <<>>
          /\ criteria[c].options[1].option = criteria[c].options[1].added.name

\* The examples that do not carry is--hidden.
VisibleExamples == {i \in DOMAIN examples : ~examples[i].hidden}

\* C21: after any sequence of lockstep adds, clicks on menu items and
\* removals of menu items, at most one AIExample is visible; an example
\* that was just added is hidden.
C21_OneVisible ==
    /\ Cardinality(VisibleExamples) <= 1
    /\ last.op = "addPair" => examples[Len(examples)].hidden

\* C22: an AIExample and an AIExampleMenuItem added through their
\* containers carry exactly one listener each: one focusout on the label
\* runs updateHandler once, one click runs the selection handler once, and
\* that handler uses the identifier the menu item holds after addHandler.
C22_SingleListener ==
    /\ \A i \in DOMAIN examples : examples[i].listeners = 1
    /\ \A i \in DOMAIN menu :
          /\ Len(menu[i].clicks) = 1
          /\ menu[i].clicks[1] = menu[i].name

\* C23: Criterion.removeHandler fires exactly one notification,
\* criterionRemove with the criterion's identifier, and no optionRemove
\* for the options of the criterion, however many it has.
C23_CriterionRemove ==
    last.op = "removeCriterion" =>
        /\ Len(fired) = 1
        /\ fired[1].event = "criterionRemove"
        /\ LooseEq(fired[1].criterionName, last.name)
        /\ fired[1].criterionName # Undefined
        /\ \A n \in DOMAIN fired : fired[n].event # "optionRemove"

\* A criterion with MaxOptions options was removed.
C23_Witness ==
    /\ last.op = "removeCriterion"
    /\ last.options = MaxOptions
    /\ MaxOptions > 1
    /\ Len(fired) = 1
    /\ fired[1].event = "criterionRemove"

\* C24: one focusout inside an option fires optionUpdated from the option
\* and then criterionUpdated from its criterion, in this order and nothing
\* else; a focusout on a field of the criterion outside its options fires
\* criterionUpdated only.
C24_UpdateOrder ==
    /\ last.op = "optionFocusOut" =>
          /\ Len(fired) = 2
          /\ fired[1].event = "optionUpdated"
          /\ fired[1].dom = criteria[last.criterion].options[last.option]
          /\ fired[2].event = "criterionUpdated"
          /\ fired[2].dom = criteria[last.criterion]
    /\ last.op = "criterionFocusOut" =>
          /\ Len(fired) = 1
          /\ fired[1].event = "criterionUpdated"
          /\ fired[1].dom = criteria[last.criterion]

\* A focusout inside the second option of a criterion fired optionUpdated
\* for that option, then criterionUpdated.
C24_Witness ==
    /\ last.op = "optionFocusOut"
    /\ last.option > 1
    /\ Len(fired) = 2
    /\ fired[1].event = "optionUpdated"
    /\ fired[1].name = Data(criteria[last.criterion].options[last.option].option)
    /\ fired[2].event = "criterionUpdated"

\* C25: createUniqueName returns a decimal string after at most
\* selector.length + 1 probes of the indices 0..selector.length, for every
\* selector length and every set of identifiers in use; it has no other
\* outcome.
C25_BoundedProbes ==
    last.op = "createUniqueName" =>
        /\ last.run.probes <= last.selectorLength + 1
        /\ last.run.probes >= 1
        /\ last.run.name.t = "string"
        /\ last.run.name.v \in 0..(last.selectorLength + 1)
        /\ last.run.name = createUniqueName(last.selectorLength, last.used)

\* Every index 0..selector.length was in use: all of them were probed and
\* the next index was returned.
C25_Witness ==
    /\ last.op = "createUniqueName"
    /\ last.selectorLength > 0
    /\ last.run.probes = last.selectorLength + 1
    /\ last.run.name = Str(last.selectorLength + 1)

====
